---- MODULE Spec2Model ----
(***************************************************************************)
(* A model of pathbreaker (src/src/lib.rs): the two path rewriters         *)
(* break_path and monotonize_quads, their quadratic splitters add_quad     *)
(* and split_quad, and the four cubic approximation strategies.            *)
(*                                                                         *)
(* Coordinates are f64 in the source.  Here a number is a fraction         *)
(* <<n, d>> in lowest terms with d > 0 (d = 0 encodes the non-finite       *)
(* results of a division by zero), so that equality of numbers is          *)
(* equality of values.  Every arithmetic result passes through Rnd, which  *)
(* is the identity under arith = "exact" and rounds to a small binary      *)
(* floating-point format under arith = "binary".                           *)
(*                                                                         *)
(* Both rewriters only ever append to the output path and never read it,   *)
(* and they read the input one element at a time.  The state therefore     *)
(* keeps the cursor (initial, p0) and, of the loop iteration under way,    *)
(* the element it consumed (elem), the current point it started from       *)
(* (from) and the elements it appended to the output path (emitted).  Two  *)
(* history variables record the input consumed so far: last_move, the      *)
(* point of its latest MoveTo (the origin when there was none), and        *)
(* closed, whether the element of the iteration before was a ClosePath.    *)
(***************************************************************************)
EXTENDS Integers, Sequences, FiniteSets

VARIABLES fn, cubic_approx, arith, initial, p0, elem, from, emitted, last_move,
          closed

vars == <<fn, cubic_approx, arith, initial, p0, elem, from, emitted, last_move,
          closed>>

(***************************************************************************)
(* Bounds of the model.                                                    *)
(***************************************************************************)
MaxWalk == 1
MaxCoord == 3
MaxPieces == 2
SampleDen == 4
PBits == 3

(***************************************************************************)
(* Numbers.                                                                *)
(***************************************************************************)
Abs(n) == IF n < 0 THEN -n ELSE n

Sign(n) == IF n < 0 THEN -1 ELSE IF n > 0 THEN 1 ELSE 0

RECURSIVE GCD(_, _)
GCD(a, b) == IF b = 0 THEN a ELSE GCD(b, a % b)

Reduce(n, d, g) ==
    IF d < 0 THEN <<(-n) \div g, (-d) \div g>> ELSE <<n \div g, d \div g>>

Norm(n, d) ==
    IF d = 0 THEN <<Sign(n), 0>> ELSE Reduce(n, d, GCD(Abs(n), Abs(d)))

R(n) == <<n, 1>>

IsNaN(a) == a[1] = 0 /\ a[2] = 0

IsFinite(a) == a[2] # 0

(***************************************************************************)
(* f64 arithmetic.  Under arith = "binary" every result is rounded, to     *)
(* nearest with ties to even, to a binary floating-point format of PBits   *)
(* significant bits whose units in the last place are 2^e for e in         *)
(* Exponents (f64: 53 bits, e from -1074 to 971): subnormal below, and     *)
(* infinite once the rounded magnitude exceeds the largest finite value.   *)
(* With 3 bits the finite numbers run from 1/4 to 7 and 1 is normal.       *)
(* The sign of a zero is not modelled.                                     *)
(***************************************************************************)
Pow2(k) == 2 ^ k

Exponents == (0 - 2)..0

Emin == CHOOSE e \in Exponents : \A f \in Exponents : e <= f

Emax == CHOOSE e \in Exponents : \A f \in Exponents : f <= e

RECURSIVE UlpExp(_, _, _)
UlpExp(n, d, e) ==
    IF (IF PBits + e >= 0 THEN n < d * Pow2(PBits + e) ELSE n * Pow2(-(PBits + e)) < d)
    THEN e
    ELSE UlpExp(n, d, e + 1)

Nearest(q, r, d) ==
    IF 2 * r < d THEN q
    ELSE IF 2 * r > d THEN q + 1
    ELSE IF q % 2 = 0 THEN q ELSE q + 1

HalfEven(n, d) == Nearest(n \div d, n % d, d)

Pack(s, m, e) ==
    IF e > Emax \/ (e = Emax /\ m >= Pow2(PBits)) THEN <<s, 0>>
    ELSE IF e >= 0 THEN Norm(s * m * Pow2(e), 1)
    ELSE Norm(s * m, Pow2(-e))

RoundAt(s, n, d, e) ==
    Pack(s, IF e >= 0 THEN HalfEven(n, d * Pow2(e)) ELSE HalfEven(n * Pow2(-e), d), e)

RoundBinary(a) ==
    IF a[2] = 0 \/ a[1] = 0 THEN a
    ELSE RoundAt(Sign(a[1]), Abs(a[1]), a[2], UlpExp(Abs(a[1]), a[2], Emin))

Rnd(a) == IF arith = "binary" THEN RoundBinary(a) ELSE a

FAdd(a, b) ==
    IF a[2] = 0 /\ b[2] = 0
    THEN (IF a[1] = b[1] THEN a ELSE <<0, 0>>)
    ELSE Rnd(Norm(a[1] * b[2] + b[1] * a[2], a[2] * b[2]))

FNeg(a) == <<-a[1], a[2]>>

FSub(a, b) == FAdd(a, FNeg(b))

FMul(a, b) == Rnd(Norm(a[1] * b[1], a[2] * b[2]))

FDiv(a, b) ==
    IF a[2] = 0 /\ b[2] = 0 THEN <<0, 0>>
    ELSE Rnd(Norm(a[1] * b[2], a[2] * b[1]))

FLt(a, b) ==
    /\ ~IsNaN(a)
    /\ ~IsNaN(b)
    /\ IF a[2] = 0 \/ b[2] = 0
       THEN (IF a[2] = 0 /\ b[2] = 0 THEN a[1] < b[1]
             ELSE IF a[2] = 0 THEN a[1] < 0 ELSE b[1] > 0)
       ELSE a[1] * b[2] < b[1] * a[2]

FLe(a, b) == ~IsNaN(a) /\ ~IsNaN(b) /\ ~FLt(b, a)

FMin(a, b) == IF IsNaN(a) THEN b ELSE IF FLt(b, a) THEN b ELSE a

FMax(a, b) == IF IsNaN(a) THEN b ELSE IF FLt(a, b) THEN b ELSE a

(***************************************************************************)
(* kurbo's points, lines, quadratic Beziers and rectangles.                *)
(***************************************************************************)
Pt(x, y) == [x |-> x, y |-> y]

ORIGIN == Pt(R(0), R(0))

lerp(a, b, t) ==
    Pt(FAdd(a.x, FMul(t, FSub(b.x, a.x))), FAdd(a.y, FMul(t, FSub(b.y, a.y))))

midpoint(a, b) ==
    Pt(FMul(<<1, 2>>, FAdd(a.x, b.x)), FMul(<<1, 2>>, FAdd(a.y, b.y)))

LineEval(a, b, t) == lerp(a, b, t)

QuadAxisMt(a, b, c, t, mt) ==
    FAdd(FMul(a, FMul(mt, mt)), FMul(FAdd(FMul(b, FMul(mt, R(2))), FMul(c, t)), t))

QuadAxis(a, b, c, t) == QuadAxisMt(a, b, c, t, FSub(R(1), t))

QuadBezEval(a, b, c, t) ==
    Pt(QuadAxis(a.x, b.x, c.x, t), QuadAxis(a.y, b.y, c.y, t))

RectFromPoints(a, b) ==
    [x0 |-> FMin(a.x, b.x), y0 |-> FMin(a.y, b.y),
     x1 |-> FMax(a.x, b.x), y1 |-> FMax(a.y, b.y)]

min_x(r) == FMin(r.x0, r.x1)

max_x(r) == FMax(r.x0, r.x1)

min_y(r) == FMin(r.y0, r.y1)

max_y(r) == FMax(r.y0, r.y1)

(***************************************************************************)
(* Path elements and the BezPath builder.                                  *)
(***************************************************************************)
NoEl == [kind |-> "None", pts |-> <<>>]

MoveToEl(p) == [kind |-> "MoveTo", pts |-> <<p>>]

LineToEl(p) == [kind |-> "LineTo", pts |-> <<p>>]

QuadToEl(p1, p2) == [kind |-> "QuadTo", pts |-> <<p1, p2>>]

CurveToEl(p1, p2, p3) == [kind |-> "CurveTo", pts |-> <<p1, p2, p3>>]

ClosePathEl == [kind |-> "ClosePath", pts |-> <<>>]

EndPoint(el) == el.pts[Len(el.pts)]

move_to(path, p) == Append(path, MoveToEl(p))

line_to(path, p) == Append(path, LineToEl(p))

quad_to(path, p1, p2) == Append(path, QuadToEl(p1, p2))

curve_to(path, p1, p2, p3) == Append(path, CurveToEl(p1, p2, p3))

close_path(path) == Append(path, ClosePathEl)

(***************************************************************************)
(* Option<f64>.                                                            *)
(***************************************************************************)
None == <<>>

Some(t) == <<t>>

IsSome(o) == Len(o) = 1

(***************************************************************************)
(* The extremum parameter both splitters compute on one axis:              *)
(* (p0 - p1) / (p0 - 2.0 * p1 + p2).                                       *)
(***************************************************************************)
ParamNum(a, b, c) == FSub(a, b)

ParamDen(a, b, c) == FAdd(FSub(a, FMul(R(2), b)), c)

ParamT(a, b, c) == FDiv(ParamNum(a, b, c), ParamDen(a, b, c))

(***************************************************************************)
(* break_path::add_quad and its helper split.  A value the source binds    *)
(* with let and uses in the statements that follow (aabb, t0 and t1, the   *)
(* arrays split returns) is a parameter of the operator that models those  *)
(* statements, so that it is computed once, as in the source.              *)
(***************************************************************************)
split_pb(t, pa, pc) == <<pa, lerp(pa, pc, t), pc>>

split(t, a, b, c) == split_pb(t, lerp(a, b, t), lerp(b, c, t))

add_quad_tx(aabb, a, b, c) ==
    IF FLt(b.x, min_x(aabb)) \/ FLt(max_x(aabb), b.x)
    THEN Some(ParamT(a.x, b.x, c.x))
    ELSE None

add_quad_ty(aabb, a, b, c) ==
    IF FLt(b.y, min_y(aabb)) \/ FLt(max_y(aabb), b.y)
    THEN Some(ParamT(a.y, b.y, c.y))
    ELSE None

add_quad_emit_three(path, s0, s1, c) ==
    quad_to(quad_to(quad_to(path, s0[1], s0[2]), s1[1], s1[2]), s1[3], c)

add_quad_second(path, t1, s0, c) ==
    add_quad_emit_three(path, s0, split(t1, s0[2], s0[3], c), c)

add_quad_first(path, t0, tmax, a, b, c) ==
    add_quad_second(path, FDiv(FSub(tmax, t0), FSub(R(1), t0)), split(t0, a, b, c), c)

add_quad_three(path, tx, ty, a, b, c) ==
    add_quad_first(path, FMin(tx, ty), FMax(tx, ty), a, b, c)

add_quad_emit_two(path, s, c) == quad_to(quad_to(path, s[1], s[2]), s[3], c)

add_quad_two(path, t, a, b, c) == add_quad_emit_two(path, split(t, a, b, c), c)

add_quad_match(path, tx, ty, a, b, c) ==
    IF IsSome(tx) /\ IsSome(ty) THEN add_quad_three(path, tx[1], ty[1], a, b, c)
    ELSE IF IsSome(tx) THEN add_quad_two(path, tx[1], a, b, c)
    ELSE IF IsSome(ty) THEN add_quad_two(path, ty[1], a, b, c)
    ELSE quad_to(path, b, c)

add_quad(path, a, b, c) ==
    add_quad_match(path, add_quad_tx(RectFromPoints(a, b), a, b, c),
                   add_quad_ty(RectFromPoints(a, b), a, b, c), a, b, c)

(***************************************************************************)
(* monotonize_quads::split_quad.                                           *)
(***************************************************************************)
sq_exterior_closed(v, lo, hi) == FLe(v, lo) \/ FLe(hi, v)

sq_exterior(v, lo, hi) == FLt(v, lo) \/ FLt(hi, v)

split_quad_tx(a, b, c) ==
    IF sq_exterior(b.x, FMin(a.x, c.x), FMax(a.x, c.x))
    THEN Some(ParamT(a.x, b.x, c.x))
    ELSE None

split_quad_ty(a, b, c) ==
    IF sq_exterior(b.y, FMin(a.y, c.y), FMax(a.y, c.y))
    THEN Some(ParamT(a.y, b.y, c.y))
    ELSE None

split_quad_second(path, t, c1, c2, c3, c) ==
    quad_to(quad_to(quad_to(path, c1, c2),
                    LineEval(c2, c3, t), QuadBezEval(c2, c3, c, t)),
            LineEval(c3, c, t), c)

split_quad_first(path, t0, t1, a, b, c) ==
    split_quad_second(path, FDiv(FSub(t1, t0), FSub(R(1), t1)),
                      LineEval(a, b, t0), QuadBezEval(a, b, c, t0), LineEval(b, c, t0), c)

split_quad_three(path, tx, ty, a, b, c) ==
    split_quad_first(path, FMin(tx, ty), FMax(tx, ty), a, b, c)

split_quad_two_swapped(path, t, a, b, c) ==
    quad_to(quad_to(path, LineEval(b, c, t), QuadBezEval(a, b, c, t)), LineEval(a, b, t), c)

split_quad_two(path, t, a, b, c) ==
    quad_to(quad_to(path, LineEval(a, b, t), QuadBezEval(a, b, c, t)), LineEval(b, c, t), c)

split_quad_match(path, tx, ty, a, b, c) ==
    IF IsSome(tx) /\ IsSome(ty) THEN split_quad_three(path, tx[1], ty[1], a, b, c)
    ELSE IF IsSome(tx) THEN split_quad_two(path, tx[1], a, b, c)
    ELSE IF IsSome(ty) THEN split_quad_two(path, ty[1], a, b, c)
    ELSE quad_to(path, b, c)

split_quad(path, a, b, c) ==
    split_quad_match(path, split_quad_tx(a, b, c), split_quad_ty(a, b, c), a, b, c)

(***************************************************************************)
(* The external collaborators of two strategies.  kurbo::flatten calls     *)
(* back with one MoveTo and then one LineTo per polyline vertex, the last  *)
(* vertex being the cubic's end point; lyon's cubic_to_quadratics calls    *)
(* back with a chain of quadratic segments from the cubic's start to its   *)
(* end.  Which vertices, controls and joints they choose depends on the    *)
(* tolerance and is left open: at most MaxPieces pieces are produced, each *)
(* vertex and each control is one of the cubic's two control points, and   *)
(* the joints of a chain of n quadratics divide the segment between those  *)
(* control points in n parts.                                              *)
(***************************************************************************)
ExternalPoints(k, b, c) == [1..k -> {b, c}]

FlattenCallbacks(a, b, c, d) ==
    { <<MoveToEl(a)>> \o [i \in 1..Len(m) |-> LineToEl(m[i])] \o <<LineToEl(d)>> :
        m \in UNION { ExternalPoints(k, b, c) : k \in 0..(MaxPieces - 1) } }

LyonJoint(i, n, b, c) == lerp(b, c, Norm(i, n))

LyonChain(n, a, b, c, d, cs) ==
    [i \in 1..n |-> [from |-> IF i = 1 THEN a ELSE LyonJoint(i - 1, n, b, c),
                     ctrl |-> cs[i],
                     to   |-> IF i = n THEN d ELSE LyonJoint(i, n, b, c)]]

LyonSegments(a, b, c, d) ==
    UNION { { LyonChain(n, a, b, c, d, cs) : cs \in ExternalPoints(n, b, c) } :
            n \in 1..MaxPieces }

(***************************************************************************)
(* break_path's four arms for a CurveTo(p1, p2, p3) met at current point   *)
(* a.                                                                      *)
(***************************************************************************)
curve_copied(path, b, c, d) == curve_to(path, b, c, d)

curve_linear(path, b, c, d) == line_to(path, d)

flatten_visit_all(path, el) ==
    IF el.kind = "MoveTo" THEN move_to(path, el.pts[1])
    ELSE line_to(path, el.pts[1])

flatten_visit(path, el) ==
    IF el.kind = "MoveTo" THEN path
    ELSE line_to(path, el.pts[1])

RECURSIVE curve_flatten(_, _)
curve_flatten(path, callbacks) ==
    IF callbacks = <<>> THEN path
    ELSE curve_flatten(flatten_visit(path, Head(callbacks)), Tail(callbacks))

curve_midpoint_emit(path, a, p_ca, p_m, p_cb, d) ==
    add_quad(add_quad(path, a, p_ca, p_m), p_m, p_cb, d)

curve_midpoint_general(path, a, p_ca, p_cb, d) ==
    curve_midpoint_emit(path, a, p_ca, midpoint(p_ca, p_cb), p_cb, d)

curve_midpoint_end_first(path, a, b, c, d) ==
    IF c = d THEN add_quad(path, a, b, d)
    ELSE IF a = b THEN add_quad(path, a, c, d)
    ELSE curve_midpoint_general(path, a, lerp(a, b, <<3, 4>>), lerp(d, c, <<3, 4>>), d)

curve_midpoint(path, a, b, c, d) ==
    IF a = b THEN add_quad(path, a, c, d)
    ELSE IF c = d THEN add_quad(path, a, b, d)
    ELSE curve_midpoint_general(path, a, lerp(a, b, <<3, 4>>), lerp(d, c, <<3, 4>>), d)

RECURSIVE curve_lyon(_, _)
curve_lyon(path, segments) ==
    IF segments = <<>> THEN path
    ELSE curve_lyon(add_quad(path, Head(segments).from, Head(segments).ctrl,
                             Head(segments).to),
                    Tail(segments))

External(a, b, c, d) ==
    CASE cubic_approx = "Flatten" -> FlattenCallbacks(a, b, c, d)
      [] cubic_approx = "Lyon"    -> LyonSegments(a, b, c, d)
      [] OTHER                    -> {<<>>}

approximate(path, ext, a, b, c, d) ==
    CASE cubic_approx = "Linear"   -> curve_linear(path, b, c, d)
      [] cubic_approx = "Flatten"  -> curve_flatten(path, ext)
      [] cubic_approx = "Midpoint" -> curve_midpoint(path, a, b, c, d)
      [] cubic_approx = "Lyon"     -> curve_lyon(path, ext)

(***************************************************************************)
(* The loop of break_path: one action per arm of its match, each the body  *)
(* of one iteration on the next element of orig, and bp_next, the end of   *)
(* the body, where elem goes out of scope and the next iteration begins.   *)
(***************************************************************************)
Consumed(el) ==
    /\ elem' = el
    /\ from' = p0
    /\ last_move' = IF el.kind = "MoveTo" THEN el.pts[1] ELSE last_move
    /\ UNCHANGED <<fn, cubic_approx, arith, closed>>

EndOfBody ==
    /\ elem # NoEl
    /\ elem' = NoEl
    /\ from' = p0
    /\ emitted' = <<>>
    /\ closed' = (elem.kind = "ClosePath")
    /\ UNCHANGED <<fn, cubic_approx, arith, initial, p0, last_move>>

bp_MoveTo(p) ==
    /\ fn = "break_path"
    /\ elem = NoEl
    /\ emitted' = move_to(<<>>, p)
    /\ p0' = p
    /\ initial' = p
    /\ Consumed(MoveToEl(p))

bp_LineTo(p) ==
    /\ fn = "break_path"
    /\ elem = NoEl
    /\ emitted' = line_to(<<>>, p)
    /\ p0' = p
    /\ UNCHANGED initial
    /\ Consumed(LineToEl(p))

bp_QuadTo(p1, p2) ==
    /\ fn = "break_path"
    /\ elem = NoEl
    /\ emitted' = add_quad(<<>>, p0, p1, p2)
    /\ p0' = p2
    /\ UNCHANGED initial
    /\ Consumed(QuadToEl(p1, p2))

bp_CurveTo(p1, p2, p3) ==
    /\ fn = "break_path"
    /\ elem = NoEl
    /\ \E ext \in External(p0, p1, p2, p3) :
           emitted' = approximate(<<>>, ext, p0, p1, p2, p3)
    /\ p0' = p3
    /\ UNCHANGED initial
    /\ Consumed(CurveToEl(p1, p2, p3))

bp_ClosePath_stay ==
    /\ fn = "break_path"
    /\ elem = NoEl
    /\ emitted' = close_path(<<>>)
    /\ UNCHANGED <<p0, initial>>
    /\ Consumed(ClosePathEl)

bp_ClosePath ==
    /\ fn = "break_path"
    /\ elem = NoEl
    /\ emitted' = close_path(<<>>)
    /\ p0' = initial
    /\ UNCHANGED initial
    /\ Consumed(ClosePathEl)

bp_next == fn = "break_path" /\ EndOfBody

(***************************************************************************)
(* The loop of monotonize_quads.                                           *)
(***************************************************************************)
mq_MoveTo(p) ==
    /\ fn = "monotonize_quads"
    /\ elem = NoEl
    /\ emitted' = move_to(<<>>, p)
    /\ p0' = p
    /\ initial' = p
    /\ Consumed(MoveToEl(p))

mq_LineTo(p) ==
    /\ fn = "monotonize_quads"
    /\ elem = NoEl
    /\ emitted' = line_to(<<>>, p)
    /\ p0' = p
    /\ UNCHANGED initial
    /\ Consumed(LineToEl(p))

mq_QuadTo(p1, p2) ==
    /\ fn = "monotonize_quads"
    /\ elem = NoEl
    /\ emitted' = split_quad(<<>>, p0, p1, p2)
    /\ p0' = p2
    /\ UNCHANGED initial
    /\ Consumed(QuadToEl(p1, p2))

mq_CurveTo(p1, p2, p3) ==
    /\ fn = "monotonize_quads"
    /\ elem = NoEl
    /\ emitted' = curve_to(<<>>, p1, p2, p3)
    /\ p0' = p3
    /\ UNCHANGED initial
    /\ Consumed(CurveToEl(p1, p2, p3))

mq_ClosePath ==
    /\ fn = "monotonize_quads"
    /\ elem = NoEl
    /\ emitted' = close_path(<<>>)
    /\ p0' = initial
    /\ UNCHANGED initial
    /\ Consumed(ClosePathEl)

mq_next == fn = "monotonize_quads" /\ EndOfBody

(***************************************************************************)
(* Specifications.  Init is the state both functions start in: the cursor  *)
(* at Point::ORIGIN and an empty output path.                              *)
(***************************************************************************)
Strategies == {"Linear", "Flatten", "Midpoint", "Lyon"}

Start ==
    /\ initial = ORIGIN
    /\ p0 = ORIGIN
    /\ elem = NoEl
    /\ from = ORIGIN
    /\ emitted = <<>>
    /\ last_move = ORIGIN
    /\ closed = FALSE

Called ==
    \/ fn = "break_path" /\ cubic_approx \in Strategies
    \/ fn = "monotonize_quads" /\ cubic_approx = "None"

Init == Called /\ arith = "exact" /\ Start

WalkPts == { Pt(R(i), R(j)) : i \in 0..MaxWalk, j \in 0..1 }

Next ==
    \/ \E p \in WalkPts : bp_MoveTo(p)
    \/ \E p \in WalkPts : bp_LineTo(p)
    \/ \E p1, p2 \in WalkPts : bp_QuadTo(p1, p2)
    \/ \E p1, p2, p3 \in WalkPts : bp_CurveTo(p1, p2, p3)
    \/ bp_ClosePath
    \/ bp_next
    \/ \E p \in WalkPts : mq_MoveTo(p)
    \/ \E p \in WalkPts : mq_LineTo(p)
    \/ \E p1, p2 \in WalkPts : mq_QuadTo(p1, p2)
    \/ \E p1, p2, p3 \in WalkPts : mq_CurveTo(p1, p2, p3)
    \/ mq_ClosePath
    \/ mq_next

Spec == Init /\ [][Next]_vars

(***************************************************************************)
(* SpecQuad: both functions on paths of MoveTo and QuadTo elements over a  *)
(* finer grid of points, each QuadTo met at the start of its subpath.      *)
(***************************************************************************)
Grid == { Pt(R(i), R(j)) : i \in 0..MaxCoord, j \in 0..MaxCoord }

NextQuad ==
    \/ \E p \in Grid : bp_MoveTo(p)
    \/ p0 = initial /\ \E p1, p2 \in Grid : bp_QuadTo(p1, p2)
    \/ bp_next
    \/ \E p \in Grid : mq_MoveTo(p)
    \/ p0 = initial /\ \E p1, p2 \in Grid : mq_QuadTo(p1, p2)
    \/ mq_next

SpecQuad == Init /\ [][NextQuad]_vars

(***************************************************************************)
(* SpecF64: monotonize_quads on paths that move to a point and draw a      *)
(* QuadTo from it, the coordinates being the finite numbers of the binary  *)
(* format and the arithmetic rounded.  The points are the (v, -v), so that each QuadTo puts the     *)
(* same numbers, with opposite signs, through the x and the y test; the    *)
(* control point is drawn with v >= 0, its mirror image being the y side.  *)
(***************************************************************************)
FloatVals ==
    { Norm(s * m * Pow2(e - Emin), Pow2(-Emin)) :
        s \in {-1, 1}, m \in 0..(Pow2(PBits) - 1), e \in Exponents }

FloatPts == { Pt(v, FNeg(v)) : v \in FloatVals }

FloatCtrl == { p \in FloatPts : p.x[1] >= 0 }

InitF64 ==
    /\ fn = "monotonize_quads"
    /\ cubic_approx = "None"
    /\ arith = "binary"
    /\ Start

NextF64 ==
    \/ p0 = initial /\ \E p \in FloatPts : mq_MoveTo(p)
    \/ p0 = initial /\ \E p1 \in FloatCtrl, p2 \in FloatPts : mq_QuadTo(p1, p2)
    \/ mq_next

SpecF64 == InitF64 /\ [][NextF64]_vars

(***************************************************************************)
(* What the claims speak of: the pieces emitted for the element consumed,  *)
(* each starting where the one before it ended.                            *)
(***************************************************************************)
StartOf(i) == IF i = 1 THEN from ELSE EndPoint(emitted[i - 1])

InSpan(v, a, c) == FLe(FMin(a, c), v) /\ FLe(v, FMax(a, c))

Outside(v, a, c) == FLt(v, FMin(a, c)) \/ FLt(FMax(a, c), v)

MonotoneAt(i) ==
    emitted[i].kind = "QuadTo" =>
        /\ InSpan(emitted[i].pts[1].x, StartOf(i).x, emitted[i].pts[2].x)
        /\ InSpan(emitted[i].pts[1].y, StartOf(i).y, emitted[i].pts[2].y)

Bezier(a, b, c, t) == lerp(lerp(a, b, t), lerp(b, c, t), t)

Blossom(a, b, c, u, v) == lerp(lerp(a, b, u), lerp(b, c, u), v)

Samples == { Norm(k, SampleDen) : k \in 0..SampleDen }

OutsideX == Outside(elem.pts[1].x, from.x, elem.pts[2].x)

OutsideY == Outside(elem.pts[1].y, from.y, elem.pts[2].y)

ExactTx == ParamT(from.x, elem.pts[1].x, elem.pts[2].x)

ExactTy == ParamT(from.y, elem.pts[1].y, elem.pts[2].y)

(***************************************************************************)
(* C1.  Whatever the input path and whichever of the four strategies,      *)
(* break_path appends no CurveTo to its output: every element it emits is  *)
(* a MoveTo, LineTo, QuadTo or ClosePath.                                  *)
(***************************************************************************)
C1_NoCurveToInOutput ==
    fn = "break_path" =>
        \A i \in 1..Len(emitted) :
            emitted[i].kind \in {"MoveTo", "LineTo", "QuadTo", "ClosePath"}

C1_Witness ==
    /\ fn = "break_path"
    /\ cubic_approx = "Linear"
    /\ elem.kind = "CurveTo"
    /\ emitted = <<LineToEl(EndPoint(elem))>>

(***************************************************************************)
(* C2.  Every QuadTo emitted by monotonize_quads has its control point     *)
(* within the span of its start and end points on the x axis and on the    *)
(* y axis, the three-segment case included.                                *)
(***************************************************************************)
C2_MonotoneOutput ==
    (fn = "monotonize_quads" /\ elem.kind = "QuadTo") =>
        \A i \in 1..Len(emitted) : MonotoneAt(i)

(***************************************************************************)
(* C3.  Every QuadTo emitted by break_path, for an input QuadTo or for a   *)
(* CurveTo approximated under Midpoint or Lyon, has its control point      *)
(* within the span of its start and end points on both axes.               *)
(***************************************************************************)
C3_BreakPathMonotone ==
    (fn = "break_path" /\ elem.kind \in {"QuadTo", "CurveTo"}) =>
        \A i \in 1..Len(emitted) : MonotoneAt(i)

(***************************************************************************)
(* C4.  A quadratic whose control point is outside the span of its end     *)
(* points on both axes, with extremum parameters t0 <= t1, is emitted by   *)
(* either splitter as three quads: the curve restricted to [0, t0], to     *)
(* [t0, t1] and to [t1, 1].                                                *)
(***************************************************************************)
C4_ThreeRestrictions ==
    (elem.kind = "QuadTo" /\ OutsideX /\ OutsideY) =>
        LET a  == from
            b  == elem.pts[1]
            c  == elem.pts[2]
            t0 == FMin(ExactTx, ExactTy)
            t1 == FMax(ExactTx, ExactTy)
        IN  emitted = << QuadToEl(Blossom(a, b, c, R(0), t0), Bezier(a, b, c, t0)),
                         QuadToEl(Blossom(a, b, c, t0, t1), Bezier(a, b, c, t1)),
                         QuadToEl(Blossom(a, b, c, t1, R(1)), c) >>

(***************************************************************************)
(* C5.  A quadratic whose control point is outside the span of its end     *)
(* points on exactly one axis, with extremum parameter t, is emitted by    *)
(* monotonize_quads as exactly two quads, (lerp(p0, p1, t), B(t)) and      *)
(* (lerp(p1, p2, t), p2), and these are the two halves of the curve: the   *)
(* first at s is the curve at s * t, the second at s is the curve at       *)
(* t + s * (1 - t).                                                        *)
(***************************************************************************)
C5_TwoHalves ==
    (fn = "monotonize_quads" /\ elem.kind = "QuadTo" /\ (OutsideX # OutsideY)) =>
        LET a == from
            b == elem.pts[1]
            c == elem.pts[2]
            t == IF OutsideX THEN ExactTx ELSE ExactTy
        IN  /\ emitted = << QuadToEl(lerp(a, b, t), Bezier(a, b, c, t)),
                            QuadToEl(lerp(b, c, t), c) >>
            /\ \A s \in Samples :
                 /\ Bezier(a, emitted[1].pts[1], emitted[1].pts[2], s)
                      = Bezier(a, b, c, FMul(s, t))
                 /\ Bezier(emitted[1].pts[2], emitted[2].pts[1], emitted[2].pts[2], s)
                      = Bezier(a, b, c, FAdd(t, FMul(s, FSub(R(1), t))))

C5_Witness ==
    /\ fn = "monotonize_quads"
    /\ elem.kind = "QuadTo"
    /\ OutsideX
    /\ ~OutsideY
    /\ ExactTx = <<1, 3>>
    /\ Len(emitted) = 2

(***************************************************************************)
(* C6.  A QuadTo whose control point is within the span of its end points  *)
(* on both axes, the ends of the span included, is emitted unchanged by    *)
(* both functions: exactly one QuadTo with the same control and end point. *)
(***************************************************************************)
C6_Unchanged ==
    ( /\ elem.kind = "QuadTo"
      /\ InSpan(elem.pts[1].x, from.x, elem.pts[2].x)
      /\ InSpan(elem.pts[1].y, from.y, elem.pts[2].y) ) =>
        emitted = <<elem>>

C6_Witness ==
    /\ fn = "monotonize_quads"
    /\ elem.kind = "QuadTo"
    /\ elem.pts[1].x = from.x
    /\ elem.pts[1].y = elem.pts[2].y
    /\ from.x # elem.pts[2].x
    /\ from.y # elem.pts[2].y
    /\ emitted = <<elem>>

(***************************************************************************)
(* C7.  Under Midpoint, a CurveTo(p1, p2, p3) met at p0 is replaced by     *)
(* the splitter's output for (p0, p2, p3) when p0 = p1; otherwise by its   *)
(* output for (p0, p1, p3) when p2 = p3; otherwise by its output for       *)
(* (p0, p_ca, p_m) followed by its output for (p_m, p_cb, p3).             *)
(***************************************************************************)
C7_Midpoint ==
    (fn = "break_path" /\ cubic_approx = "Midpoint" /\ elem.kind = "CurveTo") =>
        LET a == from
            b == elem.pts[1]
            c == elem.pts[2]
            d == elem.pts[3]
            p_ca == lerp(a, b, <<3, 4>>)
            p_cb == lerp(d, c, <<3, 4>>)
            p_m  == midpoint(p_ca, p_cb)
        IN  /\ a = b => emitted = add_quad(<<>>, a, c, d)
            /\ (a # b /\ c = d) => emitted = add_quad(<<>>, a, b, d)
            /\ (a # b /\ c # d) =>
                   emitted = add_quad(<<>>, a, p_ca, p_m) \o add_quad(<<>>, p_m, p_cb, d)

C7_Witness ==
    /\ fn = "break_path"
    /\ cubic_approx = "Midpoint"
    /\ elem.kind = "CurveTo"
    /\ from = elem.pts[1]
    /\ elem.pts[2] = elem.pts[3]
    /\ from # elem.pts[3]
    /\ emitted = <<QuadToEl(elem.pts[2], elem.pts[3])>>

(***************************************************************************)
(* C8.  For every strategy and every LineTo, QuadTo or CurveTo consumed by *)
(* either function at current point p0, the elements emitted for it are at *)
(* least one, each draws on from where the one before it ended (none is a  *)
(* MoveTo or a ClosePath), and the last one ends at the element's end      *)
(* point, which is also the new current point.                             *)
(***************************************************************************)
C8_EndpointKept ==
    elem.kind \in {"LineTo", "QuadTo", "CurveTo"} =>
        /\ Len(emitted) >= 1
        /\ \A i \in 1..Len(emitted) :
               emitted[i].kind \in {"LineTo", "QuadTo", "CurveTo"}
        /\ EndPoint(emitted[Len(emitted)]) = EndPoint(elem)
        /\ p0 = EndPoint(elem)

C8_Witness ==
    /\ fn = "break_path"
    /\ cubic_approx = "Flatten"
    /\ elem.kind = "CurveTo"
    /\ Len(emitted) = 2
    /\ EndPoint(emitted[1]) # EndPoint(elem)
    /\ EndPoint(emitted[2]) = EndPoint(elem)

(***************************************************************************)
(* C9.  After each element consumed by either function the current point   *)
(* is that element's end point, or, after a ClosePath, the point of the    *)
(* latest MoveTo consumed (the origin when there was none); a QuadTo or    *)
(* CurveTo that directly follows a ClosePath is therefore split or         *)
(* approximated from that point; and the subpath-start point changes only  *)
(* when a MoveTo is consumed.                                              *)
(***************************************************************************)
CursorTracks ==
    /\ elem.kind \in {"MoveTo", "LineTo", "QuadTo", "CurveTo"} => p0 = EndPoint(elem)
    /\ elem.kind = "ClosePath" => p0 = last_move
    /\ (closed /\ elem.kind = "QuadTo") =>
           emitted = IF fn = "break_path"
                     THEN add_quad(<<>>, last_move, elem.pts[1], elem.pts[2])
                     ELSE split_quad(<<>>, last_move, elem.pts[1], elem.pts[2])
    /\ (closed /\ elem.kind = "CurveTo") =>
           IF fn = "break_path"
           THEN \E ext \in External(last_move, elem.pts[1], elem.pts[2], elem.pts[3]) :
                    emitted = approximate(<<>>, ext, last_move,
                                          elem.pts[1], elem.pts[2], elem.pts[3])
           ELSE emitted = <<elem>>

StartKept == initial' # initial => elem'.kind = "MoveTo"

C9_CursorTracking == []CursorTracks /\ [][StartKept]_vars

C9_Witness ==
    /\ closed
    /\ elem.kind = "QuadTo"
    /\ last_move # ORIGIN
    /\ from = last_move
    /\ Len(emitted) = 2

(***************************************************************************)
(* C10.  Whenever split_quad's test finds the control point outside the    *)
(* span of the end points on an axis, the denominator p0 - 2*p1 + p2 is    *)
(* not zero and the parameter computed is strictly between 0 and 1.        *)
(***************************************************************************)
XSub(a, b) == Norm(a[1] * b[2] - b[1] * a[2], a[2] * b[2])

XParam(a, b, c) ==
    LET num == XSub(a, b)
        den == XSub(num, XSub(b, c))
    IN  Norm(num[1] * den[2], num[2] * den[1])

Interior(t) == IsFinite(t) /\ 0 < t[1] /\ t[1] < t[2]

C10_StrictlyInterior ==
    (fn = "monotonize_quads" /\ elem.kind = "QuadTo") =>
        LET a  == from
            b  == elem.pts[1]
            c  == elem.pts[2]
            tx == split_quad_tx(a, b, c)
            ty == split_quad_ty(a, b, c)
        IN  /\ IsSome(tx) => (ParamDen(a.x, b.x, c.x) # R(0) /\ Interior(tx[1]))
            /\ IsSome(ty) => (ParamDen(a.y, b.y, c.y) # R(0) /\ Interior(ty[1]))

(***************************************************************************)
(* C10 as amended.  Whenever the test fires on an axis, the denominator    *)
(* computed is neither zero nor NaN, so that no division by zero occurs,   *)
(* and the parameter computed is NaN or a finite number that is not        *)
(* negative; the exact quotient of the same coordinates is strictly        *)
(* between 0 and 1.                                                        *)
(***************************************************************************)
DenomOk(o, a, b, c) ==
    IsSome(o) =>
        /\ ParamDen(a, b, c) # R(0)
        /\ ~IsNaN(ParamDen(a, b, c))
        /\ IsNaN(o[1]) \/ (IsFinite(o[1]) /\ o[1][1] >= 0)
        /\ Interior(XParam(a, b, c))

C10_NoDivisionByZero ==
    (fn = "monotonize_quads" /\ elem.kind = "QuadTo") =>
        LET a == from
            b == elem.pts[1]
            c == elem.pts[2]
        IN  /\ DenomOk(split_quad_tx(a, b, c), a.x, b.x, c.x)
            /\ DenomOk(split_quad_ty(a, b, c), a.y, b.y, c.y)

C10_Witness ==
    /\ fn = "monotonize_quads"
    /\ arith = "binary"
    /\ elem.kind = "QuadTo"
    /\ split_quad_tx(from, elem.pts[1], elem.pts[2]) = Some(R(1))
    /\ Len(emitted) = 3

====
